---- MODULE Spec2Model ----
(***************************************************************************)
(* A model of the rule-expression engine bool_expr_parser_nom: the typed   *)
(* value model (Atom) with its cross-variant equality and ordering, the    *)
(* operator enumerations, the grammar and the evaluator.                   *)
(*                                                                         *)
(* Text is a sequence of one-character strings, so that lexing, case       *)
(* folding and number parsing are computed character by character.         *)
(* An f64 is a record [nan, num, den]: NaN, or the finite value num/den    *)
(* (den > 0).  Infinities and the sign of zero are not modelled.           *)
(***************************************************************************)
EXTENDS Integers, Sequences, FiniteSets, TLC

VARIABLES
    a, b,       \* the value model: the two atoms compared
    eqAB,       \* <<a == b>> once computed
    eqBA,       \* <<b == a>> once computed
    cmpAB,      \* <<a.partial_cmp(b)>> once computed
    rule,       \* the engine: what the caller's rule text was written from
    text,       \* the rule text handed to parse
    context,    \* the context handed to eval
    pc,         \* "start", "parsed", "parse_error", "panic", "done" or
                \* "main_done"
    rest,       \* the remainder parse returned
    ast,        \* the AstNode parse returned (or the caller built)
    exprs,      \* the Vec<LogicExpr> parse_main returned
    result      \* <<eval's result>> once computed

atomVars == <<a, b, eqAB, eqBA, cmpAB>>

engineVars == <<rule, text, context, pc, rest, ast, exprs, result>>

vars ==
    <<a, b, eqAB, eqBA, cmpAB, rule, text, context, pc, rest, ast, exprs, result>>

(***************************************************************************)
(* Bounds of the model.                                                    *)
(***************************************************************************)
NumBound == 2

MaxListLen == 2

MaxScopeDepth == 2

MaxTerms == 5

(***************************************************************************)
(* Characters.                                                             *)
(***************************************************************************)
LowerChars == <<"a","b","c","d","e","f","g","h","i","j","k","l","m",
                "n","o","p","q","r","s","t","u","v","w","x","y","z">>
UpperChars == <<"A","B","C","D","E","F","G","H","I","J","K","L","M",
                "N","O","P","Q","R","S","T","U","V","W","X","Y","Z">>
DigitChars == <<"0","1","2","3","4","5","6","7","8","9">>

Range(s) == {s[i] : i \in DOMAIN s}

IndexOf(c, s) == CHOOSE i \in DOMAIN s : s[i] = c

\* K applied to the value of v, which is computed once.
Bind(v, K(_)) == CHOOSE res \in {K(w) : w \in {v}} : TRUE

(***************************************************************************)
(* Character classes and case folding (str::to_lowercase, to_uppercase on  *)
(* ASCII text).                                                            *)
(***************************************************************************)
IsAlpha(c) == c \in Range(LowerChars) \cup Range(UpperChars)

IsDigit(c) == c \in Range(DigitChars)

IsSpace(c) == c \in {" ", "\t", "\r", "\n"}

to_lowercase_char(c) ==
    IF c \in Range(UpperChars) THEN LowerChars[IndexOf(c, UpperChars)] ELSE c

to_uppercase_char(c) ==
    IF c \in Range(LowerChars) THEN UpperChars[IndexOf(c, LowerChars)] ELSE c

to_lowercase(str) == [i \in DOMAIN str |-> to_lowercase_char(str[i])]

to_uppercase(str) == [i \in DOMAIN str |-> to_uppercase_char(str[i])]

(***************************************************************************)
(* Lexical parsers.  A parser reads text s from position p; a lexical      *)
(* parser returns the position after what it matched, or 0 when it fails.  *)
(***************************************************************************)
RECURSIVE multispace0(_, _)
multispace0(s, p) ==
    IF p <= Len(s) /\ IsSpace(s[p]) THEN multispace0(s, p + 1) ELSE p

tag(s, p, t) ==
    IF p + Len(t) - 1 <= Len(s) /\ SubSeq(s, p, p + Len(t) - 1) = t
      THEN p + Len(t) ELSE 0

tag_no_case(s, p, t) ==
    IF /\ p + Len(t) - 1 <= Len(s)
       /\ to_lowercase(SubSeq(s, p, p + Len(t) - 1)) = to_lowercase(t)
      THEN p + Len(t) ELSE 0

RECURSIVE ident_rest(_, _)
ident_rest(s, p) ==
    IF p <= Len(s) /\ (IsAlpha(s[p]) \/ IsDigit(s[p]) \/ s[p] = "_")
      THEN ident_rest(s, p + 1) ELSE p

parse_variable(s, p) ==
    IF p <= Len(s) /\ (IsAlpha(s[p]) \/ s[p] = "_")
      THEN ident_rest(s, p + 1) ELSE 0

\* The position of the closing quote of the string opened at p, or 0.
RECURSIVE take_until_quote(_, _)
take_until_quote(s, p) ==
    IF p > Len(s) THEN 0
    ELSE IF s[p] = "\"" THEN p
    ELSE take_until_quote(s, p + 1)

parse_string_value(s, p) ==
    IF p <= Len(s) /\ s[p] = "\""
      THEN (IF take_until_quote(s, p + 1) = 0 THEN 0
            ELSE take_until_quote(s, p + 1) + 1)
      ELSE 0

I32_MAX == 2147483647

RECURSIVE digit0(_, _)
digit0(s, p) == IF p <= Len(s) /\ IsDigit(s[p]) THEN digit0(s, p + 1) ELSE p

\* The value of the decimal digits s[p..q-1], after the value acc; -1 when
\* the value does not fit an i32.
RECURSIVE DecValue(_, _, _, _)
DecValue(s, p, q, acc) ==
    IF p >= q THEN acc
    ELSE IF acc = -1 \/ acc > (I32_MAX - (IndexOf(s[p], DigitChars) - 1)) \div 10
      THEN -1
    ELSE DecValue(s, p + 1, q, 10 * acc + (IndexOf(s[p], DigitChars) - 1))

RECURSIVE Pow10(_)
Pow10(k) == IF k = 0 THEN 1 ELSE 10 * Pow10(k - 1)

(***************************************************************************)
(* f64: equality, ordering and the exact widening of an i32.               *)
(***************************************************************************)
NaN == [nan |-> TRUE, num |-> 0, den |-> 1]

Fin(n, d) == [nan |-> FALSE, num |-> n, den |-> d]

f64_from_i32(n) == Fin(n, 1)

f64_eq(x, y) == ~x.nan /\ ~y.nan /\ x.num * y.den = y.num * x.den

int_cmp(x, y) == IF x < y THEN "Less" ELSE IF x = y THEN "Equal" ELSE "Greater"

f64_partial_cmp(x, y) ==
    IF x.nan \/ y.nan THEN "None" ELSE int_cmp(x.num * y.den, y.num * x.den)

(***************************************************************************)
(* Atom: the constructors of the enum.  The payload has a field of its     *)
(* own per type: s a text, i an i32, f an f64, b a bool, d a date.          *)
(***************************************************************************)
AString(s)   == [t |-> "String", s |-> s]
ANumber(n)   == [t |-> "Number", i |-> n]
AFloat(f)    == [t |-> "Float", f |-> f]
ABoolean(x)  == [t |-> "Boolean", b |-> x]
AVariable(s) == [t |-> "Variable", s |-> s]
ADate(d)     == [t |-> "Date", d |-> d]
ADateTime(s) == [t |-> "DateTime", s |-> s]

(***************************************************************************)
(* impl PartialEq for Atom: the arms of the match, in order.               *)
(***************************************************************************)
Atom_eq_NoVariableString(self, other) ==
    CASE self.t = "String"   /\ other.t = "String"   -> self.s = other.s
      [] self.t = "Variable" /\ other.t = "Variable" -> self.s = other.s
      [] self.t = "String"   /\ other.t = "Variable" -> self.s = other.s
      [] self.t = "Number"   /\ other.t = "Number"   -> self.i = other.i
      [] self.t = "Float"    /\ other.t = "Float"    -> f64_eq(self.f, other.f)
      [] self.t = "Boolean"  /\ other.t = "Boolean"  -> self.b = other.b
      [] self.t = "Date"     /\ other.t = "Date"     -> self.d = other.d
      [] self.t = "DateTime" /\ other.t = "DateTime" -> self.s = other.s
      [] OTHER -> FALSE

Atom_eq(self, other) ==
    CASE self.t = "String"   /\ other.t = "String"   -> self.s = other.s
      [] self.t = "Variable" /\ other.t = "Variable" -> self.s = other.s
      [] self.t = "String"   /\ other.t = "Variable" -> self.s = other.s
      [] self.t = "Variable" /\ other.t = "String"   -> self.s = other.s
      [] self.t = "Number"   /\ other.t = "Number"   -> self.i = other.i
      [] self.t = "Float"    /\ other.t = "Float"    -> f64_eq(self.f, other.f)
      [] self.t = "Boolean"  /\ other.t = "Boolean"  -> self.b = other.b
      [] self.t = "Date"     /\ other.t = "Date"     -> self.d = other.d
      [] self.t = "DateTime" /\ other.t = "DateTime" -> self.s = other.s
      [] OTHER -> FALSE

(***************************************************************************)
(* impl PartialOrd for Atom: "None", or the Ordering inside Some.          *)
(***************************************************************************)
Atom_partial_cmp_NoWidening(self, other) ==
    CASE self.t = "Number" ->
           (CASE other.t = "Number" -> int_cmp(self.i, other.i)
              [] OTHER -> "None")
      [] self.t = "Float" ->
           (CASE other.t = "Float" -> f64_partial_cmp(self.f, other.f)
              [] OTHER -> "None")
      [] OTHER -> "None"

Atom_partial_cmp_TextOrdered(self, other) ==
    CASE self.t = "Number" ->
           (CASE other.t = "Number" -> int_cmp(self.i, other.i)
              [] other.t = "Float" -> f64_partial_cmp(f64_from_i32(self.i), other.f)
              [] OTHER -> "Less")
      [] self.t = "Float" ->
           (CASE other.t = "Float" -> f64_partial_cmp(self.f, other.f)
              [] other.t = "Number" -> f64_partial_cmp(self.f, f64_from_i32(other.i))
              [] OTHER -> "Less")
      [] OTHER -> "Greater"

Atom_partial_cmp(self, other) ==
    CASE self.t = "Number" ->
           (CASE other.t = "Number" -> int_cmp(self.i, other.i)
              [] other.t = "Float" -> f64_partial_cmp(f64_from_i32(self.i), other.f)
              [] OTHER -> "None")
      [] self.t = "Float" ->
           (CASE other.t = "Float" -> f64_partial_cmp(self.f, other.f)
              [] other.t = "Number" -> f64_partial_cmp(self.f, f64_from_i32(other.i))
              [] OTHER -> "None")
      [] OTHER -> "None"

(***************************************************************************)
(* ComparisonOp::from_str and LogicOp::from_str.  "unreachable" is the     *)
(* unreachable!() arm: the call panics.                                    *)
(***************************************************************************)
ComparisonExpr_from_str(expr) ==
    CASE expr = <<"=","=">> \/ expr = <<"=">> -> "Eq"
      [] expr = <<">">> -> "More"
      [] expr = <<">","=">> -> "MoreEq"
      [] expr = <<"<">> -> "Less"
      [] expr = <<"<","=">> -> "LessEq"
      [] expr = <<"!","=">> -> "NotEq"
      [] OTHER -> "unreachable"

ComparisonOp_from_str_DoubleEqOnly(expr) ==
    CASE expr = <<"=","=">> -> "Eq"
      [] expr = <<">">> -> "More"
      [] expr = <<">","=">> -> "MoreEq"
      [] expr = <<"<">> -> "Less"
      [] expr = <<"<","=">> -> "LessEq"
      [] expr = <<"!","=">> \/ expr = <<"<",">">> -> "NotEq"
      [] OTHER -> "unreachable"

ComparisonOp_from_str(expr) ==
    CASE expr = <<"=","=">> \/ expr = <<"=">> -> "Eq"
      [] expr = <<">">> -> "More"
      [] expr = <<">","=">> -> "MoreEq"
      [] expr = <<"<">> -> "Less"
      [] expr = <<"<","=">> -> "LessEq"
      [] expr = <<"!","=">> \/ expr = <<"<",">">> -> "NotEq"
      [] OTHER -> "unreachable"

LogicOp_from_str_CaseSensitive(i) ==
    CASE i = <<"a","n","d">> \/ i = <<"&","&">> -> "And"
      [] i = <<"o","r">> \/ i = <<"|","|">> -> "Or"
      [] OTHER -> "unreachable"

LogicOp_from_str(i) ==
    CASE to_lowercase(i) = <<"a","n","d">> \/ to_lowercase(i) = <<"&","&">> -> "And"
      [] to_lowercase(i) = <<"o","r">> \/ to_lowercase(i) = <<"|","|">> -> "Or"
      [] OTHER -> "unreachable"

(***************************************************************************)
(* AstNode: the constructors of the enum.                                  *)
(***************************************************************************)
Void                == [n |-> "Void"]
Variable(atom)      == [n |-> "Variable", a |-> atom]
Function(f, e)      == [n |-> "Function", f |-> f, e |-> e]
Constant(atom)      == [n |-> "Constant", a |-> atom]
List(xs)            == [n |-> "List", xs |-> xs]
Compare(l, op, r)   == [n |-> "Compare", l |-> l, op |-> op, r |-> r]
Array(l, op, r)     == [n |-> "Array", l |-> l, op |-> op, r |-> r]
Logic(l, op, r)     == [n |-> "Logic", l |-> l, op |-> op, r |-> r]
Scope(expr, negate) == [n |-> "Scope", expr |-> expr, negate |-> negate]

(***************************************************************************)
(* The grammar.  A parser returns POk(position after the match, value),    *)
(* PErr (a ParseError) or PPanic (an unreachable!() arm was entered).      *)
(* An alternative is tried only after PErr, and a sequence stops at the    *)
(* first result that is not POk, so a panic is never swallowed.            *)
(*                                                                         *)
(* An identifier on the left of an operator, or standing alone, is a       *)
(* reference (AstNode::Variable); on the right of a comparison and inside  *)
(* a list it is a bare-word literal (Atom::Variable held as a constant).   *)
(***************************************************************************)
PErr == [st |-> "err"]

PPanic == [st |-> "panic"]

POk(pos, val) == [st |-> "ok", pos |-> pos, val |-> val]

Min(S) == CHOOSE x \in S : \A y \in S : x <= y

\* alt over tags, in order: the first tag of `tags` found at p, or <<>>.
first_tag(s, p, tags) ==
    IF \E i \in DOMAIN tags : tag(s, p, tags[i]) # 0
      THEN tags[Min({i \in DOMAIN tags : tag(s, p, tags[i]) # 0})]
      ELSE <<>>

first_tag_no_case(s, p, tags) ==
    IF \E i \in DOMAIN tags : tag_no_case(s, p, tags[i]) # 0
      THEN SubSeq(s, p, p - 1 + Len(tags[Min({i \in DOMAIN tags :
                                               tag_no_case(s, p, tags[i]) # 0})]))
      ELSE <<>>

ComparisonTags == <<<<"=","=">>, <<">","=">>, <<"<","=">>, <<"!","=">>, <<"<",">">>, <<"=">>, <<">">>, <<"<">>>>

AndTags == <<<<"a","n","d">>, <<"&","&">>>>

OrTags == <<<<"o","r">>, <<"|","|">>>>

\* An integer (an i32, or the parse fails), or with a decimal point and a
\* fraction a float.  Floats are modelled for digit strings that fit an i32.
parse_number(s, p) ==
    Bind(digit0(s, p), LAMBDA q :
    Bind(digit0(s, q + 1), LAMBDA r :
    Bind(DecValue(s, p, q, 0), LAMBDA n :
      IF q = p THEN PErr
      ELSE IF q <= Len(s) /\ s[q] = "." /\ r > q + 1
        THEN POk(r, AFloat(Fin(DecValue(s, q + 1, r, n), Pow10(r - q - 1))))
      ELSE IF n = -1 THEN PErr
      ELSE POk(q, ANumber(n)))))

\* A bare word: true, false (in any case) or an Atom::Variable.
word_atom(w) ==
    IF to_lowercase(w) = <<"t","r","u","e">> THEN ABoolean(TRUE)
    ELSE IF to_lowercase(w) = <<"f","a","l","s","e">> THEN ABoolean(FALSE)
    ELSE AVariable(w)

\* A literal or a bare word, as an Atom.
parse_atom(s, p) ==
    IF p > Len(s) THEN PErr
    ELSE IF s[p] = "\"" THEN
      Bind(parse_string_value(s, p), LAMBDA e :
        IF e = 0 THEN PErr ELSE POk(e, AString(SubSeq(s, p + 1, e - 2))))
    ELSE IF IsDigit(s[p]) THEN parse_number(s, p)
    ELSE
      Bind(parse_variable(s, p), LAMBDA q :
        IF q = 0 THEN PErr ELSE POk(q, word_atom(SubSeq(s, p, q - 1))))

\* The position after "upper (" or "lower (" at p, or 0.
fn_open(s, p) ==
    Bind(parse_variable(s, p), LAMBDA q :
      IF q # 0 /\ to_lowercase(SubSeq(s, p, q - 1)) \in {<<"u","p","p","e","r">>, <<"l","o","w","e","r">>}
        THEN tag(s, multispace0(s, q), <<"(">>) ELSE 0)

\* primary: upper(primary) | lower(primary) | literal | identifier.
RECURSIVE parse_primary(_, _, _)
parse_primary(s, p, side) ==
    Bind(fn_open(s, p), LAMBDA open :
      IF open # 0 THEN
        Bind(parse_primary(s, multispace0(s, open), side), LAMBDA inner :
          IF inner.st # "ok" THEN inner
          ELSE Bind(tag(s, multispace0(s, inner.pos), <<")">>), LAMBDA close :
            IF close = 0 THEN PErr
            ELSE POk(close, Function(IF to_lowercase(<<s[p]>>) = <<"u">>
                                       THEN "Upper" ELSE "Lower", inner.val))))
      ELSE
        Bind(parse_atom(s, p), LAMBDA atom :
          IF atom.st # "ok" THEN atom
          ELSE IF atom.val.t = "Variable" /\ side = "left"
            THEN POk(atom.pos, Variable(atom.val))
          ELSE POk(atom.pos, Constant(atom.val))))

\* The items of a list from the one at p on, after the items acc.
RECURSIVE list_items(_, _, _)
list_items(s, p, acc) ==
    Bind(parse_atom(s, p), LAMBDA item :
      IF item.st # "ok" THEN PErr
      ELSE Bind(multispace0(s, item.pos), LAMBDA q :
        IF tag(s, q, <<",">>) # 0
          THEN list_items(s, multispace0(s, q + 1), Append(acc, item.val))
        ELSE IF tag(s, q, <<")">>) # 0
          THEN POk(q + 1, List(Append(acc, item.val)))
        ELSE PErr))

\* List: "(" items separated by commas ")"; "()" is the empty list.
parse_list(s, p) ==
    IF tag(s, p, <<"(">>) = 0 THEN PErr
    ELSE Bind(multispace0(s, p + 1), LAMBDA q :
      IF tag(s, q, <<")">>) # 0 THEN POk(q + 1, List(<<>>))
      ELSE list_items(s, q, <<>>))

\* "in" or "not in" at q: <<the ArrayOp, the position after it>>, or <<>>.
array_op(s, q) ==
    Bind(tag_no_case(s, q, <<"i","n">>), LAMBDA isIn :
    Bind(tag_no_case(s, q, <<"n","o","t">>), LAMBDA isNot :
      IF isIn # 0 THEN <<"In", isIn>>
      ELSE IF isNot # 0 /\ multispace0(s, isNot) > isNot
                /\ tag_no_case(s, multispace0(s, isNot), <<"i","n">>) # 0
        THEN <<"NotIn", tag_no_case(s, multispace0(s, isNot), <<"i","n">>)>>
      ELSE <<>>))

\* membership: primary ("in" | "not in") List.
parse_membership(s, p) ==
    Bind(parse_primary(s, p, "left"), LAMBDA l :
      IF l.st # "ok" THEN l
      ELSE Bind(array_op(s, multispace0(s, l.pos)), LAMBDA op :
        IF op = <<>> THEN PErr
        ELSE Bind(parse_list(s, multispace0(s, op[2])), LAMBDA list :
          IF list.st # "ok" THEN list
          ELSE POk(list.pos, Array(l.val, op[1], list.val)))))

\* comparison: primary comparison-operator primary.
parse_comparison(s, p) ==
    Bind(parse_primary(s, p, "left"), LAMBDA l :
      IF l.st # "ok" THEN l
      ELSE Bind(multispace0(s, l.pos), LAMBDA q :
           Bind(first_tag(s, q, ComparisonTags), LAMBDA opText :
        IF opText = <<>> THEN PErr
        ELSE Bind(ComparisonOp_from_str(opText), LAMBDA op :
          IF op = "unreachable" THEN PPanic
          ELSE Bind(parse_primary(s, multispace0(s, q + Len(opText)), "right"),
                    LAMBDA r :
            IF r.st # "ok" THEN r
            ELSE POk(r.pos, Compare(l.val, op, r.val)))))))

RECURSIVE parse_term(_, _), parse_and_chain(_, _), parse_expr(_, _),
          and_tail(_, _, _), or_tail(_, _, _)

\* The opening of a scope at p: <<negate, the position after "(">>, or <<>>.
scope_open(s, p) ==
    Bind(tag_no_case(s, p, <<"n","o","t">>), LAMBDA isNot :
    Bind(tag(s, p, <<"!">>), LAMBDA isBang :
      IF isNot # 0 /\ tag(s, multispace0(s, isNot), <<"(">>) # 0
        THEN <<TRUE, tag(s, multispace0(s, isNot), <<"(">>)>>
      ELSE IF isBang # 0 /\ tag(s, multispace0(s, isBang), <<"(">>) # 0
        THEN <<TRUE, tag(s, multispace0(s, isBang), <<"(">>)>>
      ELSE IF tag(s, p, <<"(">>) # 0 THEN <<FALSE, tag(s, p, <<"(">>)>>
      ELSE <<>>))

\* scope: ["not" | "!"] "(" expr ")".
parse_scope(s, p) ==
    Bind(scope_open(s, p), LAMBDA open :
      IF open = <<>> THEN PErr
      ELSE Bind(parse_expr(s, open[2]), LAMBDA e :
        IF e.st # "ok" THEN e
        ELSE Bind(tag(s, multispace0(s, e.pos), <<")">>), LAMBDA close :
          IF close = 0 THEN PErr
          ELSE POk(close, Scope(e.val, open[1])))))

\* term: scope | membership | comparison | primary, after any whitespace.
parse_term(s, p0) ==
    Bind(multispace0(s, p0), LAMBDA p :
    Bind(parse_scope(s, p), LAMBDA sc :
      IF sc.st # "err" THEN sc
      ELSE Bind(parse_membership(s, p), LAMBDA m :
        IF m.st # "err" THEN m
        ELSE Bind(parse_comparison(s, p), LAMBDA c :
          IF c.st # "err" THEN c
          ELSE parse_primary(s, p, "left")))))

\* Zero or more (and-operator term) after `left`, left-associative.  When no
\* further operator and term follow, the chain ends before the whitespace.
and_tail(s, left, p) ==
    Bind(multispace0(s, p), LAMBDA q :
    Bind(first_tag_no_case(s, q, AndTags), LAMBDA opText :
      IF opText = <<>> THEN POk(p, left)
      ELSE Bind(LogicOp_from_str(opText), LAMBDA op :
        IF op = "unreachable" THEN PPanic
        ELSE Bind(parse_term(s, q + Len(opText)), LAMBDA r :
          IF r.st = "err" THEN POk(p, left)
          ELSE IF r.st = "panic" THEN r
          ELSE and_tail(s, Logic(left, op, r.val), r.pos)))))

parse_and_chain(s, p) ==
    Bind(parse_term(s, p), LAMBDA first :
      IF first.st # "ok" THEN first ELSE and_tail(s, first.val, first.pos))

or_tail(s, left, p) ==
    Bind(multispace0(s, p), LAMBDA q :
    Bind(first_tag_no_case(s, q, OrTags), LAMBDA opText :
      IF opText = <<>> THEN POk(p, left)
      ELSE Bind(LogicOp_from_str(opText), LAMBDA op :
        IF op = "unreachable" THEN PPanic
        ELSE Bind(parse_and_chain(s, q + Len(opText)), LAMBDA r :
          IF r.st = "err" THEN POk(p, left)
          ELSE IF r.st = "panic" THEN r
          ELSE or_tail(s, Logic(left, op, r.val), r.pos)))))

\* expr: and-chains joined by or-operators (and binds tighter than or).
parse_expr(s, p) ==
    Bind(parse_and_chain(s, p), LAMBDA first :
      IF first.st # "ok" THEN first ELSE or_tail(s, first.val, first.pos))

\* parse(input) -> Ok((remainder, AstNode)) | Err(ParseError) | panic.
parse(input) ==
    Bind(parse_expr(input, 1), LAMBDA r :
      IF r.st # "ok" THEN r
      ELSE [st |-> "ok", rest |-> SubSeq(input, r.pos, Len(input)), node |-> r.val])

(***************************************************************************)
(* The demonstration parser (main.rs): and/or pairs of assignments         *)
(* name = "text".                                                          *)
(***************************************************************************)
RECURSIVE space0(_, _)
space0(s, p) ==
    IF p <= Len(s) /\ s[p] \in {" ", "\t"} THEN space0(s, p + 1) ELSE p

parse_variable_clean_spaces(s, p) == parse_variable(s, multispace0(s, p))

parse_equal(s, p) ==
    Bind(tag(s, space0(s, p), <<"=">>), LAMBDA q :
      IF q = 0 THEN 0 ELSE space0(s, q))

\* HashMap::from([(var, val)])
Pair(var, val) == var :> val

parse_assignment(s, p) ==
    Bind(multispace0(s, p), LAMBDA p0 :
      Bind(parse_variable_clean_spaces(s, p), LAMBDA p1 :
        IF p1 = 0 THEN PErr
        ELSE Bind(parse_equal(s, p1), LAMBDA p2 :
          IF p2 = 0 THEN PErr
          ELSE Bind(parse_string_value(s, p2), LAMBDA p3 :
            IF p3 = 0 THEN PErr
            ELSE POk(p3, Pair(SubSeq(s, p0, p1 - 1), SubSeq(s, p2 + 1, p3 - 2)))))))

LogicExpr_And(p1, p2) == [e |-> "And", p1 |-> p1, p2 |-> p2]

LogicExpr_Or(p1, p2) == [e |-> "Or", p1 |-> p1, p2 |-> p2]

parse_bool_expr_and(s, p) ==
    Bind(parse_assignment(s, p), LAMBDA l :
      IF l.st # "ok" THEN PErr
      ELSE Bind(tag_no_case(s, multispace0(s, l.pos), <<"a","n","d">>), LAMBDA q :
        IF q = 0 THEN PErr
        ELSE Bind(parse_assignment(s, multispace0(s, q)), LAMBDA r :
          IF r.st # "ok" THEN PErr
          ELSE POk(r.pos, LogicExpr_And(l.val, r.val)))))

parse_bool_expr_or(s, p) ==
    Bind(parse_assignment(s, p), LAMBDA l :
      IF l.st # "ok" THEN PErr
      ELSE Bind(tag_no_case(s, multispace0(s, l.pos), <<"o","r">>), LAMBDA q :
        IF q = 0 THEN PErr
        ELSE Bind(parse_assignment(s, multispace0(s, q)), LAMBDA r :
          IF r.st # "ok" THEN PErr
          ELSE POk(r.pos, LogicExpr_Or(l.val, r.val)))))

\* many0(alt((parse_bool_expr_and, parse_bool_expr_or))): the pairs matched
\* from p on after those of acc; when neither alternative matches, many0
\* returns what it has with the text left (every match consumes text, so
\* many0's no-progress error cannot arise).
RECURSIVE many0_bool_expr(_, _, _)
many0_bool_expr(s, p, acc) ==
    Bind(parse_bool_expr_and(s, p), LAMBDA x :
      IF x.st = "ok" THEN many0_bool_expr(s, x.pos, Append(acc, x.val))
      ELSE Bind(parse_bool_expr_or(s, p), LAMBDA y :
        IF y.st = "ok" THEN many0_bool_expr(s, y.pos, Append(acc, y.val))
        ELSE [st |-> "ok", rest |-> SubSeq(s, p, Len(s)), exprs |-> acc]))

parse_main(input) == many0_bool_expr(input, 1, <<>>)

(***************************************************************************)
(* The evaluator.  A result is EOk(value) or EErr(kind, name): an          *)
(* EvalError of that kind, naming the variable when one is unresolved.     *)
(* A context is a function from names to Atoms.                            *)
(***************************************************************************)
EOk(v) == [ok |-> TRUE, val |-> v]

EErr(kind, name) == [ok |-> FALSE, err |-> kind, name |-> name]

\* Variable(Atom::Variable(name)): context[name]; a missing key is an error.
lookup_DefaultFalse(name, ctx) ==
    IF name \in DOMAIN ctx THEN EOk(ctx[name]) ELSE EOk(ABoolean(FALSE))

lookup(name, ctx) ==
    IF name \in DOMAIN ctx THEN EOk(ctx[name])
    ELSE EErr("UnresolvedVariable", name)

\* Function(Upper | Lower, operand) on the operand's resolved value.
apply_fn(f, atom) ==
    IF atom.t \in {"String", "Variable"}
      THEN EOk(AString(IF f = "Upper" THEN to_uppercase(atom.s)
                       ELSE to_lowercase(atom.s)))
      ELSE EErr("NotStringLike", <<>>)

\* The Atom a Constant, Variable or Function node stands for.
RECURSIVE resolve(_, _)
resolve(node, ctx) ==
    CASE node.n = "Constant" -> EOk(node.a)
      [] node.n = "Variable" -> lookup(node.a.s, ctx)
      [] node.n = "Function" ->
           Bind(resolve(node.e, ctx), LAMBDA r :
             IF r.ok THEN apply_fn(node.f, r.val) ELSE r)
      [] OTHER -> EErr("NotAValue", <<>>)

\* Compare(l, op, r) on the two resolved sides.
compare_atoms(l, op, r) ==
    IF op = "Eq" THEN EOk(Atom_eq(l, r))
    ELSE IF op = "NotEq" THEN EOk(~Atom_eq(l, r))
    ELSE Bind(Atom_partial_cmp(l, r), LAMBDA c :
      CASE c = "None" -> EErr("Incomparable", <<>>)
        [] op = "More" -> EOk(c = "Greater")
        [] op = "Less" -> EOk(c = "Less")
        [] op = "MoreEq" -> EOk(c \in {"Greater", "Equal"})
        [] op = "LessEq" -> EOk(c \in {"Less", "Equal"}))

\* Array(l, In | NotIn, List(xs)) on the resolved left side.
array_test(l, op, xs) ==
    IF op = "In" THEN EOk(\E i \in DOMAIN xs : Atom_eq(xs[i], l))
    ELSE EOk(~(\E i \in DOMAIN xs : Atom_eq(xs[i], l)))

\* Logic(l, op, r) from the result of l and, when it is needed, that of r.
combine_logic_NoShortCircuit(l, op, r) ==
    IF ~l.ok THEN l
    ELSE IF ~r.ok THEN r
    ELSE IF op = "And" THEN EOk(l.val /\ r.val)
    ELSE EOk(l.val \/ r.val)

combine_logic(l, op, r) ==
    IF ~l.ok THEN l
    ELSE IF op = "And" THEN (IF l.val THEN r ELSE EOk(FALSE))
    ELSE (IF l.val THEN EOk(TRUE) ELSE r)

\* Scope{expr, negate} from the result of expr.
apply_scope(r, negate) ==
    IF ~r.ok THEN r ELSE IF negate THEN EOk(~r.val) ELSE r

\* A value where a boolean is expected: a Boolean is its value.
as_bool(r) ==
    IF ~r.ok THEN r
    ELSE IF r.val.t = "Boolean" THEN EOk(r.val.b)
    ELSE EErr("NotBoolean", <<>>)

\* eval(ast, context) -> Ok(bool) | Err(EvalError).
RECURSIVE eval(_, _)
eval(node, ctx) ==
    CASE node.n = "Void" -> EOk(FALSE)
      [] node.n = "Compare" ->
           Bind(resolve(node.l, ctx), LAMBDA l :
             IF ~l.ok THEN l
             ELSE Bind(resolve(node.r, ctx), LAMBDA r :
               IF ~r.ok THEN r ELSE compare_atoms(l.val, node.op, r.val)))
      [] node.n = "Array" ->
           Bind(resolve(node.l, ctx), LAMBDA l :
             IF ~l.ok THEN l
             ELSE IF node.r.n # "List" THEN EErr("NotAList", <<>>)
             ELSE array_test(l.val, node.op, node.r.xs))
      [] node.n = "Logic" ->
           Bind(eval(node.l, ctx), LAMBDA l :
             combine_logic(l, node.op, eval(node.r, ctx)))
      [] node.n = "Scope" -> apply_scope(eval(node.expr, ctx), node.negate)
      [] node.n = "List" -> EErr("NotBoolean", <<>>)
      [] OTHER -> as_bool(resolve(node, ctx))

(***************************************************************************)
(* The atoms the equality and ordering are exercised on.                   *)
(***************************************************************************)
AtomTexts == { <<"A","d","m","i","n">>, <<"a","d","m","i","n">> }

AtomFloats == {Fin(n, 2) : n \in (-2 * NumBound)..(2 * NumBound)} \cup {NaN}

AtomInputs ==
    {AString(s) : s \in AtomTexts} \cup {AVariable(s) : s \in AtomTexts}
      \cup {ADateTime(s) : s \in AtomTexts}
      \cup {ANumber(n) : n \in (-NumBound)..NumBound}
      \cup {AFloat(f) : f \in AtomFloats}
      \cup {ABoolean(x) : x \in BOOLEAN}
      \cup {ADate(d) : d \in 0..1}

IsNumeric(x) == x.t \in {"Number", "Float"}

IsNaN(x) == x.t = "Float" /\ x.f.nan

(***************************************************************************)
(* The texts of the test rules and contexts (tests/parser_test.rs).        *)
(***************************************************************************)
TXT_street_name == <<"s","t","r","e","e","t","_","n","a","m","e">>

TXT_Random == <<"R","a","n","d","o","m"," ","t","h","i","s"," ","o","r"," ","t","h","a","t">>

TXT_countryCode == <<"c","o","u","n","t","r","y","C","o","d","e">>

TXT_123NL123 == <<"1","2","3"," ","N","L"," ","1","2","3">>

TXT_accountRole == <<"a","c","c","o","u","n","t","R","o","l","e">>

TXT_account_country_code == <<"a","c","c","o","u","n","t","_","c","o","u","n","t","r","y","_","c","o","d","e">>

TXT_account_uuid == <<"a","c","c","o","u","n","t","_","u","u","i","d">>

TXT_accountType == <<"a","c","c","o","u","n","t","T","y","p","e">>

TXT_user_id == <<"u","s","e","r","_","i","d">>

TXT_Admin == <<"A","d","m","i","n">>

TXT_admin == <<"a","d","m","i","n">>

TXT_AdminOrderManager == <<"A","d","m","i","n","/","O","r","d","e","r"," ","M","a","n","a","g","e","r">>

TXT_Guest == <<"G","u","e","s","t">>

TXT_LT == <<"L","T">>

TXT_NL == <<"N","L">>

TXT_DE == <<"D","E">>

TXT_GB == <<"G","B">>

TXT_US == <<"U","S">>

TXT_lt == <<"l","t">>

TXT_fr == <<"f","r">>

TXT_uuid == <<"5","4","3","9","8","7","b","0","-","e","6","9","f","-","4","1","e","c","-","9","a","6","8","-","c","f","c","5","c","f","b","1","5","a","f","e">>

TXT_uuid2 == <<"6","1","3","3","b","8","d","6","-","4","0","7","8","-","4","2","7","0","-","9","a","6","8","-","f","a","0","a","c","7","8","b","f","5","1","2">>

TXT_Corporate == <<"C","o","r","p","o","r","a","t","e">>

TXT_Managament == <<"M","a","n","a","g","a","m","e","n","t">>

TXT_CorporateType == <<"S","o","m","e"," ","C","o","r","p","o","r","a","t","e"," ","&"," ","M","a","n","a","g","a","m","e","n","t"," ","T","y","p","e">>

TXT_Other == <<"O","t","h","e","r">>

TXT_n2032312 == <<"2","0","3","2","3","1","2">>

TXT_n2032313 == <<"2","0","3","2","3","1","3">>

TXT_n32434 == <<"3","2","4","3","4">>

(***************************************************************************)
(* The value model on its own: a pair of atoms, compared both ways.  A     *)
(* result not yet computed is <<>>, a computed one is <<result>>.          *)
(***************************************************************************)
InitAtom ==
    /\ a \in AtomInputs
    /\ b \in AtomInputs
    /\ eqAB = <<>>
    /\ eqBA = <<>>
    /\ cmpAB = <<>>
    /\ rule = <<>>
    /\ text = <<>>
    /\ context = <<>>
    /\ pc = "idle"
    /\ rest = <<>>
    /\ ast = Void
    /\ exprs = <<>>
    /\ result = <<>>

CallEq ==
    /\ eqAB = <<>>
    /\ eqAB' = <<Atom_eq(a, b)>>
    /\ eqBA' = <<Atom_eq(b, a)>>
    /\ UNCHANGED <<a, b, cmpAB>>
    /\ UNCHANGED engineVars

CallPartialCmp ==
    /\ cmpAB = <<>>
    /\ cmpAB' = <<Atom_partial_cmp(a, b)>>
    /\ UNCHANGED <<a, b, eqAB, eqBA>>
    /\ UNCHANGED engineVars

NextAtom == CallEq \/ CallPartialCmp

SpecAtom == InitAtom /\ [][NextAtom]_vars

(***************************************************************************)
(* Rules as a caller writes them.  A rule is an expression of terms; each  *)
(* term carries `sat`, the context values of its variable for which the    *)
(* term holds, stated independently of the parser and the evaluator.       *)
(* The rule text is the rule's tokens joined by whitespace.                *)
(***************************************************************************)
Bare(s) == [q |-> FALSE, s |-> s]

Quoted(s) == [q |-> TRUE, s |-> s]

Term(fn, var, op, list, rhs, sat) ==
    [fn |-> fn, var |-> var, op |-> op, list |-> list, rhs |-> rhs, sat |-> sat]

ETerm(t) == [k |-> "term", t |-> t]

EAnd(l, r) == [k |-> "and", l |-> l, r |-> r]

EOr(l, r) == [k |-> "or", l |-> l, r |-> r]

EScope(e, neg) == [k |-> "scope", e |-> e, neg |-> neg]

\* A token: its text, and whether it needs whitespace next to another word.
Tok(s) == [w |-> IsAlpha(s[1]) \/ IsDigit(s[1]) \/ s[1] = "_", s |-> s]

ItemTok(item) ==
    IF item.q THEN [w |-> FALSE, s |-> <<"\"">> \o item.s \o <<"\"">>]
    ELSE Tok(item.s)

RECURSIVE ItemToks(_, _)
ItemToks(rhs, i) ==
    IF i > Len(rhs) THEN <<>>
    ELSE (IF i > 1 THEN <<Tok(<<",">>)>> ELSE <<>>)
           \o <<ItemTok(rhs[i])>> \o ItemToks(rhs, i + 1)

TermToks(t) ==
    (IF t.fn = <<>> THEN <<Tok(t.var)>>
     ELSE <<Tok(t.fn), Tok(<<"(">>), Tok(t.var), Tok(<<")">>)>>)
      \o [i \in DOMAIN t.op |-> Tok(t.op[i])]
      \o (IF t.list THEN <<Tok(<<"(">>)>> \o ItemToks(t.rhs, 1) \o <<Tok(<<")">>)>>
          ELSE ItemToks(t.rhs, 1))

RECURSIVE ExprToks(_, _, _)
ExprToks(e, andKw, orKw) ==
    CASE e.k = "term" -> TermToks(e.t)
      [] e.k = "and" ->
           ExprToks(e.l, andKw, orKw) \o <<Tok(andKw)>> \o ExprToks(e.r, andKw, orKw)
      [] e.k = "or" ->
           ExprToks(e.l, andKw, orKw) \o <<Tok(orKw)>> \o ExprToks(e.r, andKw, orKw)
      [] e.k = "scope" ->
           (IF e.neg THEN <<Tok(<<"n","o","t">>)>> ELSE <<>>)
             \o <<Tok(<<"(">>)>> \o ExprToks(e.e, andKw, orKw) \o <<Tok(<<")">>)>>

\* The tokens from the i-th on, each preceded by the whitespace `ws` asks for.
RECURSIVE JoinToks(_, _, _)
JoinToks(toks, i, ws) ==
    IF i > Len(toks) THEN <<>>
    ELSE (IF i = 1 THEN ws.lead
          ELSE IF ws.tight /\ ~(toks[i - 1].w /\ toks[i].w) THEN <<>>
          ELSE ws.gap)
           \o toks[i].s \o JoinToks(toks, i + 1, ws)

Render(r) == JoinToks(ExprToks(r.expr, r.andKw, r.orKw), 1, r.ws)

\* The names a rule refers to.
RECURSIVE RuleVars(_)
RuleVars(e) ==
    CASE e.k = "term" -> {e.t.var}
      [] e.k = "scope" -> RuleVars(e.e)
      [] OTHER -> RuleVars(e.l) \cup RuleVars(e.r)

\* Whether the rule holds in a context binding all its names, from `sat`.
RECURSIVE Truth(_, _)
Truth(e, c) ==
    CASE e.k = "term" -> c[e.t.var] \in e.t.sat
      [] e.k = "and" -> Truth(e.l, c) /\ Truth(e.r, c)
      [] e.k = "or" -> Truth(e.l, c) \/ Truth(e.r, c)
      [] e.k = "scope" -> (Truth(e.e, c) # e.neg)

WsStyles ==
    { [lead |-> <<>>, gap |-> <<" ">>, tight |-> FALSE],
      [lead |-> <<"\n">>, gap |-> <<"\n", " ", " ">>, tight |-> FALSE],
      [lead |-> <<>>, gap |-> <<" ">>, tight |-> TRUE],
      [lead |-> <<" ">>, gap |-> <<"\t", " ">>, tight |-> FALSE] }

PlainWs == [lead |-> <<>>, gap |-> <<" ">>, tight |-> FALSE]

KW_in == <<<<"i","n">>>>

\* The terms of test_evaluation: and-joined memberships and a comparison.
T_role ==
    Term(<<>>, TXT_accountRole, KW_in, TRUE,
         <<Bare(TXT_Admin), Bare(TXT_admin), Quoted(TXT_AdminOrderManager)>>,
         {AString(TXT_AdminOrderManager), AString(TXT_Admin), AString(TXT_admin)})

T_country ==
    Term(<<"u","p","p","e","r">>, TXT_account_country_code, KW_in, TRUE,
         <<Bare(TXT_LT), Bare(TXT_NL), Bare(TXT_DE), Bare(TXT_GB), Bare(TXT_US)>>,
         {AString(TXT_lt), AString(TXT_LT)})

T_user ==
    Term(<<>>, TXT_user_id, <<<<"<","=">>>>, FALSE, <<Bare(TXT_n2032313)>>,
         {ANumber(2032312), ANumber(2032313)})

T_uuid ==
    Term(<<>>, TXT_account_uuid, KW_in, TRUE,
         <<Quoted(TXT_uuid), Quoted(TXT_uuid2)>>,
         {AString(TXT_uuid)})

T_type ==
    Term(<<>>, TXT_accountType, KW_in, TRUE,
         <<Quoted(TXT_CorporateType), Bare(TXT_Corporate), Bare(TXT_Managament)>>,
         {AString(TXT_CorporateType)})

ChainTerms == <<T_role, T_country, T_uuid, T_type, T_user>>

Max(S) == CHOOSE x \in S : \A y \in S : x >= y

\* The terms picked by the indices I, in the order of the test's rule, as a
\* left-associative and-chain.
RECURSIVE ChainOf(_)
ChainOf(I) ==
    IF Cardinality(I) = 1 THEN ETerm(ChainTerms[Max(I)])
    ELSE EAnd(ChainOf(I \ {Max(I)}), ETerm(ChainTerms[Max(I)]))

Chains ==
    {ChainOf(I) : I \in {J \in SUBSET DOMAIN ChainTerms :
                           Cardinality(J) >= 1 /\ Cardinality(J) <= MaxTerms}}

ChainRules ==
    {[kind |-> "chain", expr |-> e, andKw |-> k, orKw |-> <<"o","r">>, ws |-> w] :
       e \in Chains,
       k \in {<<"a","n","d">>, <<"A","N","D">>, <<"&","&">>},
       w \in WsStyles}

\* scoped_test_case: a and ((b or c) and d) and e, with Eq spelled eq.
ScopedExpr(eq) ==
    EAnd(EAnd(ETerm(Term(<<>>, TXT_accountRole, KW_in, TRUE,
                         <<Bare(TXT_Admin), Quoted(TXT_AdminOrderManager)>>,
                         {AString(TXT_AdminOrderManager), AString(TXT_Admin)})),
              EScope(EAnd(EScope(EOr(ETerm(Term(<<"l","o","w","e","r">>, TXT_account_country_code,
                                                 <<eq>>, FALSE, <<Bare(TXT_lt)>>,
                                                 {AString(TXT_lt), AString(TXT_LT)})),
                                     ETerm(Term(<<>>, TXT_account_uuid, <<eq>>, FALSE,
                                                <<Bare(TXT_n32434)>>,
                                                {ANumber(32434)}))),
                                 FALSE),
                          ETerm(Term(<<>>, TXT_accountType, <<eq>>, FALSE,
                                     <<Quoted(TXT_CorporateType)>>,
                                     {AString(TXT_CorporateType)}))),
                     FALSE)),
         ETerm(Term(<<>>, TXT_user_id, <<eq>>, FALSE, <<Bare(TXT_n2032312)>>,
                    {ANumber(2032312)})))

ScopedRules ==
    {[kind |-> "scoped", expr |-> ScopedExpr(eq), andKw |-> <<"a","n","d">>, orKw |-> k,
      ws |-> w] :
       eq \in {<<"=">>, <<"=","=">>},
       k \in {<<"o","r">>, <<"|","|">>},
       w \in WsStyles}

\* Operator spellings: the known sets, and texts outside them.
KnownComparison == Range(ComparisonTags)

UnknownComparison == {<<"=",">">>, <<"=","<">>, <<">","<">>, <<"=","=","=">>, <<"!","=","=">>, <<"~","=">>, <<"<","=",">">>}

KnownLogic == {<<"a","n","d">>, <<"A","N","D">>, <<"A","n","d">>, <<"&","&">>, <<"o","r">>, <<"O","R">>, <<"|","|">>}

UnknownLogic == {<<"x","o","r">>, <<"&">>, <<"|">>, <<"n","a","n","d">>}

OpTerm(var, op, n) == Term(<<>>, var, <<op>>, FALSE, <<Bare(n)>>, {})

\* user_id OP 2032313, and user_id = 2032313 OP account_uuid = 32434 (OP
\* written where the rule's and-keyword goes).
ComparisonOpRules ==
    {[kind |-> "cmpop", expr |-> ETerm(OpTerm(TXT_user_id, op, TXT_n2032313)),
      andKw |-> <<"a","n","d">>, orKw |-> <<"o","r">>, ws |-> PlainWs] :
       op \in KnownComparison \cup UnknownComparison}

LogicOpRules ==
    {[kind |-> "logicop",
      expr |-> EAnd(ETerm(OpTerm(TXT_user_id, <<"=">>, TXT_n2032313)),
                    ETerm(OpTerm(TXT_account_uuid, <<"=">>, TXT_n32434))),
      andKw |-> op, orKw |-> <<"o","r">>, ws |-> PlainWs] :
       op \in KnownLogic \cup UnknownLogic}

\* main's content, street_name ="Random this or that" OP countryCode = "123 NL 123".
AssignText(op) ==
    TXT_street_name \o <<" ", "=", "\"">> \o TXT_Random \o <<"\"", " ">> \o op
      \o <<" ">> \o TXT_countryCode \o <<" ", "=", " ", "\"">> \o TXT_123NL123 \o <<"\"">>

AssignRules == {[kind |-> "assign", andKw |-> op] : op \in KnownLogic \cup UnknownLogic}

TextRules == ChainRules \cup ScopedRules \cup ComparisonOpRules \cup LogicOpRules

RuleText(r) == IF r.kind = "assign" THEN AssignText(r.andKw) ELSE Render(r)

(***************************************************************************)
(* Contexts for the rule texts: the context of the tests, and the ones     *)
(* differing from it in at most two values or lacking one key.             *)
(***************************************************************************)
CtxNames ==
    <<TXT_accountRole, TXT_account_country_code, TXT_account_uuid,
      TXT_accountType, TXT_user_id>>

CtxBase ==
    <<AString(TXT_AdminOrderManager), AString(TXT_lt), AString(TXT_uuid),
      AString(TXT_CorporateType), ANumber(2032312)>>

CtxPools ==
    <<{AString(TXT_AdminOrderManager), AString(TXT_Guest)},
      {AString(TXT_lt), AString(TXT_LT), AString(TXT_fr)},
      {AString(TXT_uuid), ANumber(32434)},
      {AString(TXT_CorporateType), AString(TXT_Other)},
      {ANumber(2032312), ANumber(2032313), ANumber(2032314)}>>

CtxOf(vals, names) == [nm \in {CtxNames[i] : i \in names} |->
                         vals[CHOOSE i \in names : CtxNames[i] = nm]]

TextContexts ==
    {CtxOf(vals, 1..5) :
       vals \in {v \in CtxPools[1] \X CtxPools[2] \X CtxPools[3] \X CtxPools[4]
                        \X CtxPools[5] :
                   Cardinality({i \in 1..5 : v[i] # CtxBase[i]}) <= 2}}
      \cup {CtxOf(CtxBase, (1..5) \ {i}) : i \in {1, 5}}

(***************************************************************************)
(* ASTs and contexts a caller hands to eval directly.                      *)
(***************************************************************************)
NameX == <<"x">>

NameY == <<"y">>

AstContexts ==
    { (NameX :> AString(TXT_lt)) @@ (NameY :> ANumber(1)),
      (NameX :> ANumber(2)),
      (NameX :> AFloat(Fin(3, 2))) @@ (NameY :> AString(TXT_LT)),
      (NameX :> AFloat(NaN)) @@ (NameY :> ABoolean(TRUE)),
      [nm \in {} |-> Void] }

Operands ==
    { Variable(AVariable(NameX)), Variable(AVariable(NameY)),
      Constant(AString(TXT_lt)), Constant(AVariable(TXT_LT)),
      Constant(ANumber(1)), Constant(ANumber(2)), Constant(AFloat(Fin(3, 2))),
      Function("Upper", Variable(AVariable(NameX))),
      Function("Lower", Variable(AVariable(NameY))) }

ComparisonOps == {"Eq", "More", "Less", "MoreEq", "LessEq", "NotEq"}

OrderingOps == {"More", "Less", "MoreEq", "LessEq"}

ListItems == {AString(TXT_lt), AVariable(TXT_lt), AVariable(TXT_LT), ANumber(2)}

Lists == UNION {[1..n -> ListItems] : n \in 0..MaxListLen}

CompareAsts == {Compare(l, op, r) : l \in Operands, op \in ComparisonOps, r \in Operands}

ArrayAsts == {Array(l, op, List(xs)) : l \in Operands, op \in {"In", "NotIn"}, xs \in Lists}

LeafAsts ==
    { Compare(Variable(AVariable(NameX)), "Eq", Constant(AVariable(TXT_lt))),
      Compare(Variable(AVariable(NameY)), "LessEq", Constant(ANumber(1))),
      Array(Function("Upper", Variable(AVariable(NameX))), "In",
            List(<<AVariable(TXT_LT)>>)),
      Constant(ABoolean(TRUE)),
      Void }

LogicAsts == {Logic(l, op, r) : l \in LeafAsts, op \in {"And", "Or"}, r \in LeafAsts}

\* e inside 0..d scopes, each negated or not.
RECURSIVE Scoped(_, _)
Scoped(S, d) ==
    IF d = 0 THEN S
    ELSE S \cup {Scope(e, neg) : e \in Scoped(S, d - 1), neg \in BOOLEAN}

ScopeAsts == Scoped(LeafAsts \cup LogicAsts, MaxScopeDepth)

AstInputs == CompareAsts \cup ArrayAsts \cup ScopeAsts

(***************************************************************************)
(* The engine: parse a rule text, then eval the AST against a context.     *)
(* A caller either writes a rule text or builds the AST itself.            *)
(***************************************************************************)
InitEngine ==
    /\ exprs = <<>>
    /\ a = ANumber(0)
    /\ b = ANumber(0)
    /\ eqAB = <<>>
    /\ eqBA = <<>>
    /\ cmpAB = <<>>
    /\ rest = <<>>
    /\ result = <<>>

InitText ==
    /\ InitEngine
    /\ \/ rule \in TextRules /\ context \in TextContexts
       \/ rule \in AssignRules /\ context = CtxOf(CtxBase, 1..5)
    /\ text = RuleText(rule)
    /\ pc = "start"
    /\ ast = Void

InitAst ==
    /\ InitEngine
    /\ rule = [kind |-> "ast"]
    /\ text = <<>>
    /\ context \in AstContexts
    /\ pc = "parsed"
    /\ ast \in AstInputs

Init == InitText \/ InitAst

\* let (i, expr) = parse(&rule)
Parse ==
    /\ pc = "start"
    /\ \E r \in {parse(text)} :
         /\ pc' = (CASE r.st = "ok" -> "parsed"
                     [] r.st = "err" -> "parse_error"
                     [] r.st = "panic" -> "panic")
         /\ rest' = (IF r.st = "ok" THEN r.rest ELSE <<>>)
         /\ ast' = (IF r.st = "ok" THEN r.node ELSE Void)
    /\ UNCHANGED <<rule, text, context, exprs, result>>
    /\ UNCHANGED atomVars

\* let val = eval(&expr, &context)
Eval ==
    /\ pc = "parsed"
    /\ result' = <<eval(ast, context)>>
    /\ pc' = "done"
    /\ UNCHANGED <<rule, text, context, rest, ast, exprs>>
    /\ UNCHANGED atomVars

\* let res = parse_main(content)?
ParseMain ==
    /\ pc = "start"
    /\ rule.kind = "assign"
    /\ \E r \in {parse_main(text)} :
         /\ pc' = (IF r.st = "ok" THEN "main_done" ELSE "parse_error")
         /\ rest' = (IF r.st = "ok" THEN r.rest ELSE <<>>)
         /\ exprs' = (IF r.st = "ok" THEN r.exprs ELSE <<>>)
    /\ UNCHANGED <<rule, text, context, ast, result>>
    /\ UNCHANGED atomVars

Next == Parse \/ Eval \/ ParseMain

Spec == Init /\ [][Next]_vars

(***************************************************************************)
(* Properties of the value model, under SpecAtom.                          *)
(***************************************************************************)

\* C3: Atom equality is symmetric for every pair of atoms, and a String and
\* a Variable (in either order) are equal exactly when their texts are equal.
Thm_C3_EqSymmetric ==
    eqAB # <<>> =>
      /\ eqAB = eqBA
      /\ {a.t, b.t} = {"String", "Variable"} =>
           /\ eqAB[1] = (a.s = b.s)
           /\ eqBA[1] = (a.s = b.s)

Wit_C3_StringEqualsVariable ==
    /\ a.t = "Variable"
    /\ b.t = "String"
    /\ a.s = b.s
    /\ eqAB = <<TRUE>>
    /\ eqBA = <<TRUE>>

\* C4: a Number equals the Float holding the same value (Number(5) ==
\* Float(5.0)), in both argument orders.
CE_C4_NumberEqualsWidenedFloat ==
    (/\ eqAB # <<>>
     /\ a.t = "Number"
     /\ b.t = "Float"
     /\ ~b.f.nan
     /\ b.f.num = a.i * b.f.den)
      => (eqAB = <<TRUE>> /\ eqBA = <<TRUE>>)

\* The value of a numeric, non-NaN atom in halves (every float of AtomInputs
\* is a whole number of halves).
Halves(x) == IF x.t = "Number" THEN 2 * x.i ELSE (2 * x.f.num) \div x.f.den

\* C5 as stated: partial_cmp returns an ordering exactly when both sides are
\* numeric (Number or Float).
CE_C5_OrderedIffNumeric ==
    cmpAB # <<>> => ((cmpAB[1] # "None") <=> (IsNumeric(a) /\ IsNumeric(b)))

\* C5, amended: partial_cmp returns an ordering exactly when both sides are
\* numeric and neither is a NaN Float; the ordering is that of the two values
\* with a Number widened to floating point; every pair with a String,
\* Variable, Boolean, Date or DateTime side, and every pair with a NaN side,
\* gives None.
Thm_C5_OrderedIffNumericNotNaN ==
    cmpAB # <<>> =>
      IF IsNumeric(a) /\ IsNumeric(b) /\ ~IsNaN(a) /\ ~IsNaN(b)
        THEN cmpAB[1] = int_cmp(Halves(a), Halves(b))
        ELSE cmpAB[1] = "None"

Wit_C5_NumberLessThanFloat ==
    /\ a.t = "Number"
    /\ b.t = "Float"
    /\ ~b.f.nan
    /\ b.f.num = 2 * a.i + 1
    /\ b.f.den = 2
    /\ cmpAB = <<"Less">>

(***************************************************************************)
(* Properties of parse and eval, under Spec.                               *)
(***************************************************************************)

\* C1: a rule of comparison and membership terms joined by and (any letter
\* case, or &&), with any whitespace between its tokens, newlines included,
\* parses with an empty remainder, and in a context binding every name of
\* the rule eval returns Ok(true) exactly when every term holds, Ok(false)
\* otherwise.
Thm_C1_AndChainParsesAndEvaluates ==
    (rule.kind = "chain" /\ RuleVars(rule.expr) \subseteq DOMAIN context) =>
      /\ pc \in {"start", "parsed", "done"}
      /\ pc \in {"parsed", "done"} => rest = <<>>
      /\ pc = "done" => result = <<EOk(Truth(rule.expr, context))>>

Wit_C1_TestEvaluationRule ==
    /\ rule.kind = "chain"
    /\ rule.expr = ChainOf(1..5)
    /\ rule.andKw = <<"a","n","d">>
    /\ "\n" \in Range(text)
    /\ context = CtxOf(CtxBase, 1..5)
    /\ pc = "done"
    /\ rest = <<>>
    /\ result = <<EOk(TRUE)>>

\* The names whose lookup the evaluation of node in ctx gets to: the right
\* side of a Compare or Array is reached when the left side resolved, the
\* right side of a Logic when the left side did not decide the result.
RECURSIVE ReachedVars(_, _)
ReachedVars(node, ctx) ==
    CASE node.n = "Variable" -> {node.a.s}
      [] node.n = "Function" -> ReachedVars(node.e, ctx)
      [] node.n \in {"Compare", "Array"} ->
           ReachedVars(node.l, ctx)
             \cup (IF resolve(node.l, ctx).ok THEN ReachedVars(node.r, ctx) ELSE {})
      [] node.n = "Logic" ->
           ReachedVars(node.l, ctx)
             \cup (IF /\ eval(node.l, ctx).ok
                      /\ eval(node.l, ctx).val = (node.op = "And")
                   THEN ReachedVars(node.r, ctx) ELSE {})
      [] node.n = "Scope" -> ReachedVars(node.expr, ctx)
      [] OTHER -> {}

\* C2: when evaluation reaches a variable whose name is not a key of the
\* context, eval returns an EvalError naming that variable: no default
\* value, no Ok result.
Thm_C2_MissingVariableIsError ==
    (pc = "done" /\ ReachedVars(ast, context) \ DOMAIN context # {}) =>
      /\ ~result[1].ok
      /\ result[1].err = "UnresolvedVariable"
      /\ result[1].name \in ReachedVars(ast, context) \ DOMAIN context

Wit_C2_AccountRoleMissing ==
    /\ rule.kind = "chain"
    /\ rule.expr = ChainOf({1})
    /\ TXT_accountRole \notin DOMAIN context
    /\ pc = "done"
    /\ result = <<EErr("UnresolvedVariable", TXT_accountRole)>>

\* C6: a Logic node with And whose left side is false is Ok(false), with Or
\* whose left side is true is Ok(true), in both cases whatever the right
\* side is (an error included); when both sides are evaluated the result is
\* their conjunction or disjunction.
Thm_C6_LogicShortCircuits ==
    (pc = "done" /\ ast.n = "Logic") =>
      \E l \in {eval(ast.l, context)}, r \in {eval(ast.r, context)} :
        /\ (ast.op = "And" /\ l.ok /\ ~l.val) => result = <<EOk(FALSE)>>
        /\ (ast.op = "Or" /\ l.ok /\ l.val) => result = <<EOk(TRUE)>>
        /\ (l.ok /\ r.ok) =>
             result = <<EOk(IF ast.op = "And" THEN l.val /\ r.val
                            ELSE l.val \/ r.val)>>

Wit_C6_FalseAndError ==
    /\ pc = "done"
    /\ ast.n = "Logic"
    /\ ast.op = "And"
    /\ eval(ast.l, context) = EOk(FALSE)
    /\ ~eval(ast.r, context).ok
    /\ result = <<EOk(FALSE)>>

\* The operator text of a rule built to try one.
RuleOp == IF rule.kind = "cmpop" THEN rule.expr.t.op[1] ELSE rule.andKw

\* C7: every failure of parse is a ParseError value, and a rule holding
\* operator text outside the recognised spellings (comparison: ==, =, >, >=,
\* <, <=, !=, <>; logic: and, &&, or, ||, any letter case) is rejected by the
\* parser with a ParseError.
CE_C7_UnknownOperatorIsParseError ==
    (/\ rule.kind \in {"cmpop", "logicop", "assign"}
     /\ RuleOp \in UnknownComparison \cup UnknownLogic
     /\ pc # "start")
      => pc = "parse_error"

\* Equality of two atoms of the kinds a list and a context hold: a String and
\* a Variable are the same text; otherwise same variant and same value.
SameValue(x, y) ==
    \/ /\ x.t \in {"String", "Variable"}
       /\ y.t \in {"String", "Variable"}
       /\ x.s = y.s
    \/ /\ x.t = "Number"
       /\ y.t = "Number"
       /\ x.i = y.i
    \/ /\ x.t = "Boolean"
       /\ y.t = "Boolean"
       /\ x.b = y.b

Thm_C9_ScopesAndNesting ==
    /\ (pc = "done" /\ ast.n = "Scope") =>
         \E inner \in {eval(ast.expr, context)} :
           /\ inner.ok => result = <<EOk(inner.val # ast.negate)>>
           /\ ~inner.ok => result = <<inner>>
           /\ (ast.negate /\ ast.expr.n = "Scope" /\ ast.expr.negate) =>
                result = <<eval(ast.expr.expr, context)>>
    /\ (rule.kind = "scoped" /\ RuleVars(rule.expr) \subseteq DOMAIN context) =>
         /\ pc \in {"start", "parsed", "done"}
         /\ pc \in {"parsed", "done"} =>
              /\ rest = <<>>
              /\ ast.n = "Logic"
              /\ ast.r = Compare(Variable(AVariable(TXT_user_id)), "Eq",
                                 Constant(ANumber(2032312)))
              /\ ast.l.n = "Logic"
              /\ ast.l.r.n = "Scope"
              /\ ast.l.r.expr.n = "Logic"
              /\ ast.l.r.expr.l.n = "Scope"
         /\ pc = "done" => result = <<EOk(Truth(rule.expr, context))>>

Wit_C9_ScopedTestCase ==
    /\ rule.kind = "scoped"
    /\ rule.expr = ScopedExpr(<<"=">>)
    /\ context = CtxOf(<<AString(TXT_AdminOrderManager), AString(TXT_LT),
                         AString(TXT_uuid), AString(TXT_CorporateType),
                         ANumber(2032312)>>, 1..5)
    /\ pc = "done"
    /\ rest = <<>>
    /\ result = <<EOk(TRUE)>>

\* C10: Compare with More, MoreEq, Less or LessEq is an EvalError when a
\* resolved side is not numeric, and otherwise the ordering of the two
\* numbers; with Eq it is the Atom equality of the two sides and with NotEq
\* the negation, neither ever failing on resolved sides.
Thm_C10_OrderingNeedsNumbers ==
    (/\ pc = "done"
     /\ ast.n = "Compare"
     /\ resolve(ast.l, context).ok
     /\ resolve(ast.r, context).ok)
      => \E l \in {resolve(ast.l, context).val}, r \in {resolve(ast.r, context).val} :
           /\ (ast.op \in OrderingOps /\ ~(IsNumeric(l) /\ IsNumeric(r))) =>
                (~result[1].ok /\ result[1].err = "Incomparable")
           /\ (ast.op \in OrderingOps /\ IsNumeric(l) /\ IsNumeric(r)
                 /\ ~IsNaN(l) /\ ~IsNaN(r)) =>
                result = <<EOk(CASE ast.op = "More" -> Halves(l) > Halves(r)
                                 [] ast.op = "MoreEq" -> Halves(l) >= Halves(r)
                                 [] ast.op = "Less" -> Halves(l) < Halves(r)
                                 [] ast.op = "LessEq" -> Halves(l) =< Halves(r))>>
           /\ ast.op = "Eq" => result = <<EOk(Atom_eq(l, r))>>
           /\ ast.op = "NotEq" => result = <<EOk(~Atom_eq(l, r))>>

Wit_C10_StringLessThanNumber ==
    /\ pc = "done"
    /\ ast.n = "Compare"
    /\ ast.op = "Less"
    /\ resolve(ast.l, context).ok
    /\ resolve(ast.l, context).val.t = "String"
    /\ resolve(ast.r, context).ok
    /\ resolve(ast.r, context).val.t = "Number"
    /\ result = <<EErr("Incomparable", <<>>)>>

====
